---- MODULE Spec2Model ----
\* BaseRepository (src/src/base-repository.ts) driven against the in-repository
\* client MockSupabaseClient / MockPostgrestQueryBuilder
\* (src/tests/bulk-operations.test.ts, lines 163-441).
\*
\* Encoding: every column value is a natural number.  Undef stands for a key
\* that is missing from a JavaScript object (reads give `undefined`).  Rows are
\* functions from Columns to values.  Error values are strings, "null" is the
\* absent error.
EXTENDS Integers, Sequences, FiniteSets, TLC

\* ------------------------------------------------------------------ bounds
MaxRows == 2
MaxId == 2
MaxVal == 2
MaxNow == 1
MaxPage == 3
MaxPageSize == 2
MaxRecords == 3
NumCallers == 2
MaxPageRows == 3
MaxBeyond == 2

\* ------------------------------------------------------------- data model
Undef == 0
Columns == {"id", "email", "age"}
Callers == 1..NumCallers

NoRow == [c \in Columns |-> Undef]
MkRow(i, e, a) == [id |-> i, email |-> e, age |-> a]

\* `mock-id-${Date.now()}-${index}` and `mock-id-${Date.now()}`: two families of
\* generated ids, disjoint from the caller-chosen ids 1..MaxId and from each
\* other; equal exactly when the clock reading (and the index) are equal.
InsertMockId(t, index) == 100 + 10 * t + index
UpsertMockId(t) == 200 + t

\* a spread that keeps the fields of b only
SpreadSecond(a, b) == b

\* { ...a, ...b }
Spread(a, b) == [c \in Columns |-> IF b[c] # Undef THEN b[c] ELSE a[c]]

\* ------------------------------------------------------- client responses
NullData == [kind |-> "null", rows |-> <<>>]
OneRow(r) == [kind |-> "row", rows |-> <<r>>]
ManyRows(rs) == [kind |-> "rows", rows |-> rs]
NullCount == -1

MockSupabaseResponse(d, e, n) == [data |-> d, error |-> e, count |-> n]

\* ------------------------------------------------- MockPostgrestQueryBuilder
NullRange == -1

\* from(tableName): a fresh builder
from == [filters |-> <<>>, orderBy |-> <<>>, rangeStart |-> NullRange,
         rangeEnd |-> NullRange, isCountQuery |-> FALSE, isHeadOnly |-> FALSE]

select(q, countExact, head) ==
    [q EXCEPT !.isCountQuery = IF countExact THEN TRUE ELSE @,
              !.isHeadOnly = IF head THEN TRUE ELSE @]

\* a builder that forgets the filter it is given
pushNoFilter(q, op, column, value) == q

\* eq / gt / gte / lt / lte push one predicate on the filter list
pushFilter(q, op, column, value) ==
    [q EXCEPT !.filters = Append(@, [op |-> op, column |-> column, value |-> value])]

order(q, column, ascending) ==
    [q EXCEPT !.orderBy = Append(@, [column |-> column, ascending |-> ascending])]

\* a range that always starts at the first row
rangeFromZero(q, start, end) == [q EXCEPT !.rangeStart = 0, !.rangeEnd = end - start]

range(q, start, end) == [q EXCEPT !.rangeStart = start, !.rangeEnd = end]

\* one filter predicate applied to one item; a comparison with `undefined`
\* is false for every relational operator and for ===
Holds(f, item) ==
    LET v == item[f.column] IN
    CASE f.op = "eq"  -> v = f.value
      [] f.op = "gt"  -> v # Undef /\ v > f.value
      [] f.op = "gte" -> v # Undef /\ v >= f.value
      [] f.op = "lt"  -> v # Undef /\ v < f.value
      [] f.op = "lte" -> v # Undef /\ v <= f.value

PassesAll(filters, item) == \A k \in 1..Len(filters) : Holds(filters[k], item)

\* filteredData.filter(...) for every filter in turn
RECURSIVE FilterRows(_, _)
FilterRows(rows, filters) ==
    IF rows = <<>> THEN <<>>
    ELSE IF PassesAll(filters, Head(rows))
         THEN <<Head(rows)>> \o FilterRows(Tail(rows), filters)
         ELSE FilterRows(Tail(rows), filters)

\* the sort comparator of executeQuery: the first key on which a < b or a > b
\* decides; `undefined` is neither smaller nor greater than anything
RECURSIVE compare(_, _, _)
compare(a, b, ob) ==
    IF ob = <<>> THEN 0
    ELSE LET aVal == a[Head(ob).column]
             bVal == b[Head(ob).column]
             both == aVal # Undef /\ bVal # Undef
         IN IF both /\ aVal < bVal THEN (IF Head(ob).ascending THEN -1 ELSE 1)
            ELSE IF both /\ aVal > bVal THEN (IF Head(ob).ascending THEN 1 ELSE -1)
            ELSE compare(a, b, Tail(ob))

Perms(n) == {p \in [1..n -> 1..n] : \A i, j \in 1..n : i # j => p[i] # p[j]}

\* Array.prototype.sort: stable; when the comparator is not a consistent
\* comparator on the data the order is implementation-defined (any permutation)
Consistent(rows, ob) ==
    \A i, j, k \in 1..Len(rows) :
        (compare(rows[i], rows[j], ob) <= 0 /\ compare(rows[j], rows[k], ob) <= 0)
            => compare(rows[i], rows[k], ob) <= 0

IsStable(rows, ob, p) ==
    \A i, j \in 1..Len(rows) :
        i < j => \/ compare(rows[p[i]], rows[p[j]], ob) < 0
                 \/ (compare(rows[p[i]], rows[p[j]], ob) = 0 /\ p[i] < p[j])

SortOutcomes(rows, ob) ==
    LET n == Len(rows)
        ps == IF Consistent(rows, ob)
              THEN {p \in Perms(n) : IsStable(rows, ob, p)}
              ELSE Perms(n)
    IN {[i \in 1..n |-> rows[p[i]]] : p \in ps}

Min(a, b) == IF a < b THEN a ELSE b

\* a slice that takes the element at `end` too
sliceInclusive(s, start, end) ==
    IF start >= Len(s) THEN <<>> ELSE SubSeq(s, start + 1, IF end + 1 < Len(s) THEN end + 1 ELSE Len(s))

\* Array.prototype.slice(start, end) for start >= 0, end >= 0
slice(s, start, end) ==
    LET lo == Min(start, Len(s))
        hi == Min(end, Len(s))
    IN IF hi <= lo THEN <<>> ELSE SubSeq(s, lo + 1, hi)

\* executeQuery, for one outcome `sorted` of the sort step
executeWith(q, sorted) ==
    LET count == Len(sorted)
        ranged == IF q.rangeStart # NullRange /\ q.rangeEnd # NullRange
                  THEN slice(sorted, q.rangeStart, q.rangeEnd + 1)
                  ELSE sorted
    IN IF q.isHeadOnly
       THEN MockSupabaseResponse(NullData, "null", count)
       ELSE MockSupabaseResponse(ManyRows(ranged), "null",
                                 IF q.isCountQuery THEN count ELSE NullCount)

\* the set of responses executeQuery can give on tableData
executeQuery(q, tableData) ==
    LET filteredData == FilterRows(tableData, q.filters)
    IN IF q.orderBy = <<>>
       THEN {executeWith(q, filteredData)}
       ELSE {executeWith(q, s) : s \in SortOutcomes(filteredData, q.orderBy)}

\* a single() that answers an empty result with an error
singleOrError(result) ==
    IF result.error = "null" /\ Len(result.data.rows) = 0
    THEN MockSupabaseResponse(NullData, "No rows returned", NullCount)
    ELSE result

\* single() applied to a response of executeQuery
single(result) ==
    IF result.error # "null" THEN result
    ELSE IF Len(result.data.rows) = 0 THEN MockSupabaseResponse(NullData, "null", NullCount)
    ELSE IF Len(result.data.rows) > 1
         THEN MockSupabaseResponse(NullData, "Multiple rows returned", NullCount)
    ELSE MockSupabaseResponse(OneRow(result.data.rows[1]), "null", NullCount)

\* item[column] for a column name that need not be a key of the row
Field(item, column) == IF column \in Columns THEN item[column] ELSE Undef

\* Strings over column names: a string is the sequence of its pieces, each a
\* column name or the separator ",".  Array.prototype.join(',')
RECURSIVE join(_)
join(cols) ==
    IF cols = <<>> THEN <<>>
    ELSE IF Len(cols) = 1 THEN <<cols[1]>>
    ELSE <<cols[1], ",">> \o join(Tail(cols))

\* String.prototype.split(','): the empty string splits into one empty piece
RECURSIVE split(_)
split(str) ==
    IF str = <<>> THEN <<"">>
    ELSE IF Head(str) = "," THEN <<"">> \o split(Tail(str))
    ELSE IF Len(str) = 1 THEN <<Head(str)>>
    ELSE IF str[2] = "," THEN <<Head(str)>> \o split(Tail(Tail(str)))
    ELSE split(Tail(str))

\* tableData.findIndex(pred), given the set of positions whose element
\* satisfies pred: the first of them, 0 when there is none (JavaScript -1)
findIndex(hits) == IF hits = {} THEN 0 ELSE CHOOSE k \in hits : \A j \in hits : k <= j

\* the results of a mock write: the new table contents and the response
Effect(tableData, resp) == [table |-> tableData, resp |-> resp]

\* a query that filters, sorts and cuts the stored array itself
QueryEffectInPlace(tableData, resp) ==
    Effect(IF resp.data.kind = "rows" THEN resp.data.rows ELSE tableData, resp)

\* the results of a query: executeQuery works on a copy of the stored array
\* (let filteredData = [...tableData]), so the table stays as it is
QueryEffect(tableData, resp) == Effect(tableData, resp)

\* an insert that stores and returns the items last to first
insertedDataReversed(items, t) ==
    [k \in 1..Len(items) |->
        Spread([NoRow EXCEPT !.id = InsertMockId(t, k - 1)], items[Len(items) + 1 - k])]

\* insert(data): every item gets a generated id unless it carries its own
insertedData(items, t) ==
    [k \in 1..Len(items) |->
        Spread([NoRow EXCEPT !.id = InsertMockId(t, k - 1)], items[k])]

\* insert(data).select().single() with a non-array argument
MockInsertOne(tableData, item, t) ==
    LET ins == insertedData(<<item>>, t)
    IN Effect(tableData \o ins, MockSupabaseResponse(OneRow(ins[1]), "null", NullCount))

\* insert(records).select() awaited
MockInsertMany(tableData, items, t) ==
    LET ins == insertedData(items, t)
    IN Effect(tableData \o ins, MockSupabaseResponse(ManyRows(ins), "null", NullCount))

\* an update that answers a missing row with no row and no error
MockUpdateLenient(tableData, data, column, value) ==
    LET hits == {k \in 1..Len(tableData) : Field(tableData[k], column) = value}
    IN IF hits = {}
       THEN Effect(tableData, MockSupabaseResponse(NullData, "null", NullCount))
       ELSE Effect(tableData, MockSupabaseResponse(OneRow(tableData[findIndex(hits)]),
                                                   "null", NullCount))

\* update(data).eq(column, value).select().single()
MockUpdate(tableData, data, column, value) ==
    LET itemIndex == findIndex({k \in 1..Len(tableData) : Field(tableData[k], column) = value})
    IN IF itemIndex = 0
       THEN Effect(tableData, MockSupabaseResponse(NullData, "No rows updated", NullCount))
       ELSE LET updatedItem == Spread(tableData[itemIndex], data)
            IN Effect([tableData EXCEPT ![itemIndex] = updatedItem],
                      MockSupabaseResponse(OneRow(updatedItem), "null", NullCount))

\* a conflict test that finds no conflict
conflictsNever(existing, item, conflictColumns) == FALSE

\* the conflict test of upsert: an existing row conflicts with item when they
\* agree on a listed column that the existing row defines
conflicts(existing, item, conflictColumns) ==
    \E k \in 1..Len(conflictColumns) :
        /\ Field(existing, conflictColumns[k]) # Undef
        /\ Field(existing, conflictColumns[k]) = Field(item, conflictColumns[k])

\* upsert(data, { onConflict }).select().single() with a non-array argument
MockUpsert(tableData, item, onConflict, t) ==
    LET conflictColumns == split(onConflict)
        existingIndex == findIndex({k \in 1..Len(tableData) :
                                        conflicts(tableData[k], item, conflictColumns)})
    IN IF existingIndex > 0
       THEN LET updated == Spread(tableData[existingIndex], item)
            IN Effect([tableData EXCEPT ![existingIndex] = updated],
                      MockSupabaseResponse(OneRow(updated), "null", NullCount))
       ELSE LET newItem == IF item.id # Undef THEN item
                           ELSE Spread([NoRow EXCEPT !.id = UpsertMockId(t)], item)
            IN Effect(Append(tableData, newItem),
                      MockSupabaseResponse(OneRow(newItem), "null", NullCount))

\* a delete that removes nothing
MockDeleteNothing(tableData, column, value) ==
    Effect(tableData, MockSupabaseResponse(NullData, "null", NullCount))

\* delete().eq(column, value)
MockDeleteEq(tableData, column, value) ==
    LET keep(item) == Field(item, column) # value
    IN Effect(SelectSeq(tableData, keep), MockSupabaseResponse(NullData, "null", NullCount))

\* a delete that looks at the first of the values only
MockDeleteInFirst(tableData, column, values) ==
    LET keep(item) == values = <<>> \/ values[1] # Field(item, column)
    IN Effect(SelectSeq(tableData, keep), MockSupabaseResponse(NullData, "null", NullCount))

\* delete().in(column, values)
MockDeleteIn(tableData, column, values) ==
    LET keep(item) == \A k \in 1..Len(values) : values[k] # Field(item, column)
    IN Effect(SelectSeq(tableData, keep), MockSupabaseResponse(NullData, "null", NullCount))

\* The client interface lets every request be answered with an error instead
\* of a result (MockSupabaseResponse.error), and a count query be answered
\* without a count (MockSupabaseResponse.count is optional); a failed request
\* leaves the table alone.
ClientError == "client error"

Answer(fault, tableData, eff) ==
    IF fault = "error"
    THEN Effect(tableData, MockSupabaseResponse(NullData, ClientError, NullCount))
    ELSE IF fault = "nocount"
    THEN Effect(eff.table, [eff.resp EXCEPT !.count = NullCount])
    ELSE eff

\* ---------------------------------------------------------- BaseRepository
\* FilterFunction: the list of builder calls the function makes on the query
NoFilter == <<>>

RECURSIVE applyFilter(_, _)
applyFilter(q, filter) ==
    IF filter = <<>> THEN q
    ELSE applyFilter(pushFilter(q, Head(filter).op, Head(filter).column, Head(filter).value),
                     Tail(filter))

\* options.orderBy: absent, one OrderBy object, or an array of them;
\* OrderBy.ascending is "true", "false" or "unset"
NoOrder == [kind |-> "none", list |-> <<>>]
OneOrder(o) == [kind |-> "one", list |-> <<o>>]
ManyOrders(os) == [kind |-> "many", list |-> os]
OrderBy(column, ascending) == [column |-> column, ascending |-> ascending]

\* order.ascending ?? true
ascendingOrTrue(o) == IF o.ascending = "unset" THEN TRUE ELSE o.ascending = "true"

RECURSIVE orderLoop(_, _)
orderLoop(q, orderByArray) ==
    IF orderByArray = <<>> THEN q
    ELSE orderLoop(order(q, Head(orderByArray).column, ascendingOrTrue(Head(orderByArray))),
                   Tail(orderByArray))

applyOrderBy(q, orderBy) ==
    IF orderBy.kind = "none" THEN q ELSE orderLoop(q, orderBy.list)

\* what a call gave back: a returned value or a thrown error
NoPagination == [page |-> 0, pageSize |-> 0, totalCount |-> 0, totalPages |-> 0]
Throw(e) == [outcome |-> "throw", error |-> e, data |-> NullData, num |-> 0,
             flag |-> FALSE, pagination |-> NoPagination]
ReturnData(d) == [Throw("null") EXCEPT !.outcome = "return", !.data = d]
ReturnNum(n) == [Throw("null") EXCEPT !.outcome = "return", !.num = n]
ReturnFlag(b) == [Throw("null") EXCEPT !.outcome = "return", !.flag = b]
ReturnPage(items, pg) ==
    [Throw("null") EXCEPT !.outcome = "return", !.data = ManyRows(items), !.pagination = pg]

\* if (error) throw error; return data
throwOrData(resp) == IF resp.error # "null" THEN Throw(resp.error) ELSE ReturnData(resp.data)

\* a completion that swallows the error
voidIgnoringError(resp) == ReturnData(NullData)

\* if (error) throw error   (delete, deleteMany: nothing is returned)
throwOrVoid(resp) == IF resp.error # "null" THEN Throw(resp.error) ELSE ReturnData(NullData)

\* a missing count taken for one row
countOrOne(resp) == IF resp.count = NullCount THEN 1 ELSE resp.count

\* count ?? 0
countOrZero(resp) == IF resp.count = NullCount THEN 0 ELSE resp.count

\* a count that takes a failed count query for a count of zero
countErrorAsZero(resp) == ReturnNum(countOrZero(resp))

\* a count that reports no rows whatever the client counted
throwOrZero(resp) ==
    IF resp.error # "null" THEN Throw(resp.error) ELSE ReturnNum(0)

\* if (error) throw error; return count ?? 0
throwOrCount(resp) ==
    IF resp.error # "null" THEN Throw(resp.error) ELSE ReturnNum(countOrZero(resp))

\* an existence test that needs two rows
throwOrExistsTwice(resp) ==
    IF resp.error # "null" THEN Throw(resp.error) ELSE ReturnFlag(countOrZero(resp) > 1)

\* if (error) throw error; return (count ?? 0) > 0
throwOrExists(resp) ==
    IF resp.error # "null" THEN Throw(resp.error) ELSE ReturnFlag(countOrZero(resp) > 0)

\* a rounding that truncates instead of rounding up
ceilAsFloor(totalCount, pageSize) == totalCount \div pageSize

\* Math.ceil(totalCount / pageSize) for totalCount >= 0, pageSize >= 1
ceil(totalCount, pageSize) ==
    IF totalCount % pageSize = 0 THEN totalCount \div pageSize
    ELSE (totalCount \div pageSize) + 1

\* arguments of a call, unused ones at their defaults
NoArgs == [id |-> Undef, data |-> NoRow, records |-> <<>>, ids |-> <<>>,
           filter |-> NoFilter, orderBy |-> NoOrder, page |-> 0, pageSize |-> 0,
           conflictColumns |-> <<>>]

\* ------------------------------------------------------------------ state
\* constructor(tableName, client)
BaseRepository(tableName, client) == [tableName |-> tableName, client |-> client]

\* new TestRepository(mockClient): super('users', client)
TestRepository == BaseRepository("users", "mockClient")

VARIABLES
    mockData,   \* MockSupabaseClient.mockData.get(tableName): the rows, in array order
    now,        \* the reading of Date.now()
    frame,      \* per caller: the findPaginated / updateMany call it is suspended in
    this,       \* the repository object: its tableName and client fields
    last        \* the call that completed most recently, with what it gave back

vars == <<mockData, now, frame, this, last>>

\* a caller that is in no multi-request call
Idle == [method |-> "idle", args |-> NoArgs, stage |-> "none", inflight |-> <<>>,
         results |-> <<>>, totalCount |-> 0, totalPages |-> 0, issued |-> 0,
         sent |-> <<>>, start |-> <<>>, pre |-> <<>>]

\* a completed call: `start` is the table when the call began, `pre` the table
\* when its last request was executed and `post` the table when the call
\* completed, `requests` the number of requests issued, `sent` the positions of
\* the records whose update updateMany issued, `resp` the last response the
\* call received, `out` what the call gave back, `prev` the call that had
\* completed just before
DoneAfter(prev, method, args, start, pre, post, requests, sent, onConflict, resp, out) ==
    [method |-> method, args |-> args, start |-> start, pre |-> pre, post |-> post,
     requests |-> requests, sent |-> sent, onConflict |-> onConflict,
     resp |-> resp, out |-> out, prev |-> prev]

NoResponse == MockSupabaseResponse(NullData, "null", NullCount)

\* what is kept of the call that completed before
Prev(call) == [method |-> call.method, id |-> call.args.id,
               outcome |-> call.out.outcome, data |-> call.out.data]

NoPrev == [method |-> "none", id |-> Undef, outcome |-> "return", data |-> NullData]

Done(method, args, start, pre, post, requests, sent, onConflict, resp, out) ==
    DoneAfter(Prev(last), method, args, start, pre, post, requests, sent, onConflict, resp, out)

NoCall ==
    DoneAfter(NoPrev, "none", NoArgs, <<>>, <<>>, <<>>, 0, <<>>, <<>>, NoResponse,
              ReturnData(NullData))

\* ------------------------------------------------- single-request methods
get(id, fault) ==
    /\ \E result \in executeQuery(pushFilter(select(from, FALSE, FALSE), "eq", "id", id),
                                  mockData) :
          LET eff == Answer(fault, mockData, QueryEffect(mockData, single(result)))
          IN /\ mockData' = eff.table
             /\ last' = Done("get", [NoArgs EXCEPT !.id = id], mockData, mockData, eff.table, 1,
                             <<>>, <<>>, eff.resp, throwOrData(eff.resp))
    /\ UNCHANGED <<now, frame, this>>

find(filter, orderBy, fault) ==
    /\ LET q0 == select(from, FALSE, FALSE)
           q1 == IF filter # NoFilter THEN applyFilter(q0, filter) ELSE q0
           q2 == IF orderBy.kind # "none" THEN orderLoop(q1, orderBy.list) ELSE q1
       IN \E result \in executeQuery(q2, mockData) :
            LET eff == Answer(fault, mockData, QueryEffect(mockData, result))
            IN /\ mockData' = eff.table
               /\ last' = Done("find", [NoArgs EXCEPT !.filter = filter, !.orderBy = orderBy],
                               mockData, mockData, eff.table, 1,
                               <<>>, <<>>, eff.resp, throwOrData(eff.resp))
    /\ UNCHANGED <<now, frame, this>>

create(data, fault) ==
    /\ Len(mockData) < MaxRows
    /\ LET eff == Answer(fault, mockData, MockInsertOne(mockData, data, now))
       IN /\ mockData' = eff.table
          /\ last' = Done("create", [NoArgs EXCEPT !.data = data], mockData, mockData, eff.table, 1,
                          <<>>, <<>>, eff.resp, throwOrData(eff.resp))
    /\ UNCHANGED <<now, frame, this>>

update(id, data, fault) ==
    /\ LET eff == Answer(fault, mockData, MockUpdate(mockData, data, "id", id))
       IN /\ mockData' = eff.table
          /\ last' = Done("update", [NoArgs EXCEPT !.id = id, !.data = data], mockData, mockData, eff.table, 1,
                          <<>>, <<>>, eff.resp, throwOrData(eff.resp))
    /\ UNCHANGED <<now, frame, this>>

delete(id, fault) ==
    /\ LET eff == Answer(fault, mockData, MockDeleteEq(mockData, "id", id))
       IN /\ mockData' = eff.table
          /\ last' = Done("delete", [NoArgs EXCEPT !.id = id], mockData, mockData, eff.table, 1,
                          <<>>, <<>>, eff.resp, throwOrVoid(eff.resp))
    /\ UNCHANGED <<now, frame, this>>

upsert(data, conflictColumns, fault) ==
    /\ LET onConflict == join(conflictColumns)
           eff == Answer(fault, mockData, MockUpsert(mockData, data, onConflict, now))
       IN /\ Len(eff.table) <= MaxRows
          /\ mockData' = eff.table
          /\ last' = Done("upsert",
                          [NoArgs EXCEPT !.data = data, !.conflictColumns = conflictColumns],
                          mockData, mockData, eff.table, 1, <<>>, onConflict, eff.resp,
                          throwOrData(eff.resp))
    /\ UNCHANGED <<now, frame, this>>

exists(filter, fault) ==
    /\ \E result \in executeQuery(applyFilter(select(from, TRUE, TRUE), filter), mockData) :
          LET eff == Answer(fault, mockData, QueryEffect(mockData, result))
          IN /\ mockData' = eff.table
             /\ last' = Done("exists", [NoArgs EXCEPT !.filter = filter], mockData, mockData,
                             eff.table, 1, <<>>, <<>>, eff.resp, throwOrExists(eff.resp))
    /\ UNCHANGED <<now, frame, this>>

count(filter, fault) ==
    /\ LET q0 == select(from, TRUE, TRUE)
           q1 == IF filter # NoFilter THEN applyFilter(q0, filter) ELSE q0
       IN \E result \in executeQuery(q1, mockData) :
            LET eff == Answer(fault, mockData, QueryEffect(mockData, result))
            IN /\ mockData' = eff.table
               /\ last' = Done("count", [NoArgs EXCEPT !.filter = filter], mockData, mockData,
                               eff.table, 1, <<>>, <<>>, eff.resp, throwOrCount(eff.resp))
    /\ UNCHANGED <<now, frame, this>>

createMany(records, fault) ==
    /\ Len(mockData) + Len(records) <= MaxRows
    /\ LET eff == Answer(fault, mockData, MockInsertMany(mockData, records, now))
       IN /\ mockData' = eff.table
          /\ last' = Done("createMany", [NoArgs EXCEPT !.records = records], mockData, mockData, eff.table, 1,
                          <<>>, <<>>, eff.resp, throwOrData(eff.resp))
    /\ UNCHANGED <<now, frame, this>>

deleteMany(ids, fault) ==
    /\ LET eff == Answer(fault, mockData, MockDeleteIn(mockData, "id", ids))
       IN /\ mockData' = eff.table
          /\ last' = Done("deleteMany", [NoArgs EXCEPT !.ids = ids], mockData, mockData, eff.table, 1,
                          <<>>, <<>>, eff.resp, throwOrVoid(eff.resp))
    /\ UNCHANGED <<now, frame, this>>

\* Date.now() moves on
Tick ==
    /\ now < MaxNow
    /\ now' = now + 1
    /\ UNCHANGED <<mockData, frame, this, last>>

\* ------------------------------------------------------------ updateMany
\* an update that carries none of the record's fields
updateDataEmpty(record) == NoRow

\* const { id, ...updateData } = record
updateData(record) == [record EXCEPT !.id = Undef]

\* a loop that sends the update of record k a second time
issueTwice(records, k) == <<k, k>>

\* a loop that starts the updates of all remaining records before it awaits
issueAll(records, k) == [j \in 1..(Len(records) - k + 1) |-> k + j - 1]

\* the records whose update iteration k of the for-loop issues before it
\* awaits: record k alone
issue(records, k) == <<k>>

\* this.update(id, updateData) for the records at positions ks, in turn: the
\* client executes each request when it is issued
RECURSIVE updateEach(_, _, _, _)
updateEach(tableData, records, ks, fault) ==
    IF ks = <<>> THEN [table |-> tableData, resps |-> <<>>]
    ELSE LET record == records[Head(ks)]
             eff == Answer(fault, tableData,
                           MockUpdate(tableData, updateData(record), "id", record.id))
             rest == updateEach(eff.table, records, Tail(ks), fault)
         IN [table |-> rest.table, resps |-> <<eff.resp>> \o rest.resps]

\* updates that go on to the records after the ones asked for
runUpdatesOn(tableData, records, ks, fault) ==
    updateEach(tableData, records, issueAll(records, Head(ks)), fault)

\* the updates one loop iteration makes
runUpdates(tableData, records, ks, fault) == updateEach(tableData, records, ks, fault)

\* updateMany(records) up to its first await
updateManyCall(c, records, fault) ==
    /\ frame[c].method = "idle"
    /\ LET args == [NoArgs EXCEPT !.records = records]
       IN IF records = <<>>
          THEN /\ last' = Done("updateMany", args, mockData, mockData, mockData, 0, <<>>, <<>>,
                               NoResponse, ReturnData(ManyRows(<<>>)))
               /\ UNCHANGED <<mockData, frame>>
          ELSE LET ks == issue(records, 1)
                   run == runUpdates(mockData, records, ks, fault)
               IN /\ mockData' = run.table
                  /\ frame' = [frame EXCEPT ![c] =
                        [Idle EXCEPT !.method = "updateMany", !.args = args,
                                     !.inflight = run.resps, !.issued = Len(ks),
                                     !.sent = ks,
                                     !.start = mockData, !.pre = mockData]]
                  /\ UNCHANGED last
    /\ UNCHANGED <<now, this>>

\* the await of this.update(...) resumes: throw, or push the row and either
\* go round the loop again or return the results
updateManyResume(c, fault) ==
    /\ frame[c].method = "updateMany"
    /\ frame[c].inflight # <<>>
    /\ LET f == frame[c]
           resp == Head(f.inflight)
           out == throwOrData(resp)
           results == Append(f.results, resp.data.rows[1])
       IN IF out.outcome = "throw"
          THEN /\ last' = Done("updateMany", f.args, f.start, f.pre, mockData, f.issued, f.sent,
                               <<>>, resp, out)
               /\ frame' = [frame EXCEPT ![c] = Idle]
               /\ UNCHANGED mockData
          ELSE IF Len(results) < Len(f.args.records)
          THEN LET ks == issue(f.args.records, Len(results) + 1)
                   run == runUpdates(mockData, f.args.records, ks, fault)
               IN /\ mockData' = run.table
                  /\ frame' = [frame EXCEPT ![c] =
                        [f EXCEPT !.results = results,
                                  !.inflight = Tail(f.inflight) \o run.resps,
                                  !.issued = f.issued + Len(ks),
                                  !.sent = f.sent \o ks, !.pre = mockData]]
                  /\ UNCHANGED last
          ELSE /\ last' = Done("updateMany", f.args, f.start, f.pre, mockData, f.issued, f.sent,
                               <<>>, resp, ReturnData(ManyRows(results)))
               /\ frame' = [frame EXCEPT ![c] = Idle]
               /\ UNCHANGED mockData
    /\ UNCHANGED <<now, this>>

\* --------------------------------------------------------- findPaginated
\* an offset that counts pages from zero
offsetOfNextPage(page, pageSize) == page * pageSize

\* (page - 1) * pageSize
offset(page, pageSize) == (page - 1) * pageSize

\* a count query that forgets the filter
countQueryUnfiltered(filter) == select(from, TRUE, TRUE)

\* getTotalCount: the count query
countQuery(filter) ==
    LET q == select(from, TRUE, TRUE)
    IN IF filter # NoFilter THEN applyFilter(q, filter) ELSE q

\* a data query whose range ends one row too late
dataQueryLongRange(off, pageSize, filter, orderBy) ==
    LET q0 == range(select(from, FALSE, FALSE), off, off + pageSize)
        q1 == IF filter # NoFilter THEN applyFilter(q0, filter) ELSE q0
    IN applyOrderBy(q1, orderBy)

\* getPaginatedData: the data query; range is set first, then the filter, then
\* the ordering
dataQuery(off, pageSize, filter, orderBy) ==
    LET q0 == range(select(from, FALSE, FALSE), off, off + pageSize - 1)
        q1 == IF filter # NoFilter THEN applyFilter(q0, filter) ELSE q0
    IN applyOrderBy(q1, orderBy)

\* findPaginated(options) up to the await of the count query
findPaginatedCall(c, page, pageSize, filter, orderBy, fault) ==
    /\ frame[c].method = "idle"
    /\ \E result \in executeQuery(countQuery(filter), mockData) :
          LET eff == Answer(fault, mockData, QueryEffect(mockData, result))
          IN /\ mockData' = eff.table
             /\ frame' = [frame EXCEPT ![c] =
                   [Idle EXCEPT !.method = "findPaginated",
                                !.args = [NoArgs EXCEPT !.page = page, !.pageSize = pageSize,
                                                        !.filter = filter, !.orderBy = orderBy],
                                !.stage = "count", !.inflight = <<eff.resp>>, !.issued = 1,
                                !.start = mockData, !.pre = mockData]]
    /\ UNCHANGED <<now, last, this>>

\* the count query is answered: throw, or compute totalPages and issue the
\* data query
findPaginatedCount(c, fault) ==
    /\ frame[c].method = "findPaginated"
    /\ frame[c].stage = "count"
    /\ LET f == frame[c]
           out == throwOrCount(Head(f.inflight))
       IN IF out.outcome = "throw"
          THEN /\ last' = Done("findPaginated", f.args, f.start, f.pre, mockData, f.issued, <<>>,
                               <<>>, Head(f.inflight), out)
               /\ frame' = [frame EXCEPT ![c] = Idle]
               /\ UNCHANGED mockData
          ELSE /\ \E result \in executeQuery(
                        dataQuery(offset(f.args.page, f.args.pageSize), f.args.pageSize,
                                  f.args.filter, f.args.orderBy), mockData) :
                     LET eff == Answer(fault, mockData, QueryEffect(mockData, result))
                     IN /\ mockData' = eff.table
                        /\ frame' = [frame EXCEPT ![c] =
                              [f EXCEPT !.stage = "data", !.inflight = <<eff.resp>>,
                                        !.totalCount = out.num,
                                        !.totalPages = ceil(out.num, f.args.pageSize),
                                        !.issued = f.issued + 1, !.pre = mockData]]
               /\ UNCHANGED last
    /\ UNCHANGED <<now, this>>

\* the data query is answered: throw, or return items and pagination
findPaginatedData(c) ==
    /\ frame[c].method = "findPaginated"
    /\ frame[c].stage = "data"
    /\ LET f == frame[c]
           out == throwOrData(Head(f.inflight))
       IN /\ last' = Done("findPaginated", f.args, f.start, f.pre, mockData, f.issued, <<>>,
                <<>>, Head(f.inflight),
                IF out.outcome = "throw" THEN out
                ELSE ReturnPage(out.data.rows,
                                [page |-> f.args.page, pageSize |-> f.args.pageSize,
                                 totalCount |-> f.totalCount, totalPages |-> f.totalPages]))
          /\ frame' = [frame EXCEPT ![c] = Idle]
    /\ UNCHANGED <<mockData, now, this>>

\* ------------------------------------------------------------ input sets
Faults == {"none", "error"}
CountFaults == {"none", "error", "nocount"}

\* tables of n rows: row k has id k, its email alternates with k, and its age
\* is any value or missing
PageRows(n) ==
    {[k \in 1..n |-> MkRow(k, 1 + (k % 2), f[k])] : f \in [1..n -> 0..MaxVal]}

IdleFrames == [c \in Callers |-> Idle]

Filters ==
    {NoFilter,
     <<[op |-> "eq", column |-> "email", value |-> 1]>>,
     <<[op |-> "gte", column |-> "age", value |-> MaxVal]>>}

OrderBys ==
    {NoOrder,
     OneOrder(OrderBy("age", "unset")),
     OneOrder(OrderBy("age", "false")),
     ManyOrders(<<OrderBy("email", "false"), OrderBy("age", "true")>>)}

\* -------------------------------------------- specification: pagination
\* findPaginated and count on a table that nobody writes to
PageTables == UNION {PageRows(n) : n \in 0..MaxPageRows}

InitPage ==
    /\ mockData \in PageTables
    /\ now = 0
    /\ this = TestRepository
    /\ frame = IdleFrames
    /\ last = NoCall

\* a behaviour follows the calls that begin before any call has completed
Fresh == last = NoCall

NextPage ==
    \/ /\ Fresh
       /\ \E page \in 1..MaxPage, pageSize \in 1..MaxPageSize, filter \in Filters,
             orderBy \in OrderBys :
             findPaginatedCall(1, page, pageSize, filter, orderBy, "none")
    \/ findPaginatedCount(1, "none")
    \/ findPaginatedData(1)
    \/ /\ Fresh
       /\ \E filter \in Filters : count(filter, "none")

SpecPage == InitPage /\ [][NextPage]_vars

\* ----------------------------------------------- specification: updateMany
\* one caller runs updateMany on a table that nobody else writes to
BulkTables == {[k \in 1..n |-> MkRow(k, k, k)] : n \in 0..MaxRows}

UpdateRecords ==
    {MkRow(i, Undef, MaxVal) : i \in 1..(MaxId + 1)} \cup {MkRow(1, MaxVal, Undef)}

RecordLists == UNION {[1..n -> UpdateRecords] : n \in 0..MaxRecords}

InitBulk ==
    /\ mockData \in BulkTables
    /\ now = 0
    /\ this = TestRepository
    /\ frame = IdleFrames
    /\ last = NoCall

NextBulk ==
    \/ /\ Fresh
       /\ \E records \in RecordLists, fault \in Faults : updateManyCall(1, records, fault)
    \/ \E fault \in Faults : updateManyResume(1, fault)

SpecBulk == InitBulk /\ [][NextBulk]_vars

\* ------------------------------------------- specification: all methods
\* Every method of the repository on a table of the test fixture's shape.  A
\* behaviour holds one writing call, the findPaginated and updateMany calls
\* that begin before a call has completed, and any number of reading calls.
Ids == 1..(MaxId + 1)
GetIds == Ids \cup {InsertMockId(0, 0)}
CreateData == {MkRow(Undef, v, v) : v \in 1..MaxVal}
CreateLists == UNION {[1..n -> CreateData] : n \in 0..MaxRows}
UpdateData == {MkRow(Undef, Undef, MaxVal), MkRow(Undef, MaxVal, Undef)}
UpsertData == {MkRow(i, e, a) : i \in 0..MaxId, e \in 0..MaxVal, a \in {Undef, MaxVal}}
ConflictLists == {<<"id">>, <<"email">>, <<"id", "email">>}
IdLists == {<<>>, <<1>>, <<2, 1>>, <<MaxId + 1>>}
SomeRecordLists == {rs \in RecordLists : Len(rs) <= 2 /\ \A k \in 1..Len(rs) : rs[k].email = Undef}
SomeFilters == {NoFilter, <<[op |-> "gte", column |-> "age", value |-> MaxVal]>>}
SomeOrderBys == {NoOrder, OneOrder(OrderBy("age", "false"))}

\* two users registered with one e-mail address
SharedEmail == <<MkRow(1, 1, 1), MkRow(2, 1, 2)>>
Tables == BulkTables \cup {SharedEmail}

Init ==
    /\ mockData \in Tables
    /\ now = 0
    /\ this = TestRepository
    /\ frame = IdleFrames
    /\ last = NoCall

Next ==
    \/ /\ Fresh
       /\ \E id \in GetIds, fault \in Faults : get(id, fault)
    \/ /\ Fresh
       /\ \E filter \in SomeFilters, orderBy \in SomeOrderBys, fault \in Faults :
             find(filter, orderBy, fault)
    \/ /\ Fresh
       /\ \E filter \in SomeFilters \ {NoFilter}, fault \in CountFaults : exists(filter, fault)
    \/ /\ Fresh
       /\ \E filter \in SomeFilters, fault \in CountFaults : count(filter, fault)
    \/ /\ Fresh
       /\ \E data \in CreateData, fault \in Faults : create(data, fault)
    \/ /\ Fresh
       /\ \E id \in Ids, data \in UpdateData, fault \in Faults : update(id, data, fault)
    \/ /\ Fresh
       /\ \E id \in Ids, fault \in Faults : delete(id, fault)
    \/ /\ Fresh
       /\ \E data \in UpsertData, conflictColumns \in ConflictLists, fault \in Faults :
             upsert(data, conflictColumns, fault)
    \/ /\ Fresh
       /\ \E records \in CreateLists, fault \in Faults : createMany(records, fault)
    \/ /\ Fresh
       /\ \E ids \in IdLists, fault \in Faults : deleteMany(ids, fault)
    \/ /\ Fresh
       /\ \E records \in SomeRecordLists, fault \in Faults : updateManyCall(1, records, fault)
    \/ \E fault \in Faults : updateManyResume(1, fault)
    \/ /\ Fresh
       /\ \E page \in 1..2, pageSize \in {MaxPageSize}, filter \in SomeFilters,
             orderBy \in SomeOrderBys, fault \in CountFaults :
             findPaginatedCall(1, page, pageSize, filter, orderBy, fault)
    \/ \E fault \in Faults : findPaginatedCount(1, fault)
    \/ findPaginatedData(1)
    \/ Tick

Spec == Init /\ [][Next]_vars

\* ---------------------------------------------- specification: reading
\* find, findPaginated, exists and count on a table that nobody writes to,
\* whose rows may lack a value in the column they are filtered or ordered by
FindOrderBys == OrderBys \cup {ManyOrders(<<OrderBy("age", "unset")>>)}

InitFind ==
    /\ mockData \in PageTables
    /\ now = 0
    /\ this = TestRepository
    /\ frame = IdleFrames
    /\ last = NoCall

\* no call has completed and none is suspended
Quiet == Fresh /\ frame = IdleFrames

NextFind ==
    \/ /\ Quiet
       /\ \E filter \in Filters, orderBy \in FindOrderBys, fault \in Faults :
             find(filter, orderBy, fault)
    \/ /\ Quiet
       /\ \E filter \in Filters \ {NoFilter}, fault \in CountFaults : exists(filter, fault)
    \/ /\ Quiet
       /\ \E filter \in Filters, fault \in CountFaults : count(filter, fault)
    \/ /\ Quiet
       /\ \E page \in 1..2, filter \in Filters, orderBy \in FindOrderBys :
             findPaginatedCall(1, page, MaxPageSize, filter, orderBy, "none")
    \/ findPaginatedCount(1, "none")
    \/ findPaginatedData(1)

SpecFind == InitFind /\ [][NextFind]_vars

\* ------------------------------------------ specification: call sequences
\* One caller that creates rows, deletes rows and gets rows, one call after
\* the other, while the clock may or may not move between two calls; the
\* client does not fail.
SeqIds == {1, 2} \cup {InsertMockId(t, 0) : t \in 0..MaxNow}

InitSeq ==
    /\ mockData \in BulkTables
    /\ now = 0
    /\ this = TestRepository
    /\ frame = IdleFrames
    /\ last = NoCall

NextSeq ==
    \/ \E id \in SeqIds : get(id, "none")
    \/ \E data \in CreateData : create(data, "none")
    \/ \E id \in SeqIds : delete(id, "none")
    \/ Tick

SpecSeq == InitSeq /\ [][NextSeq]_vars

\* ------------------------------------------- specification: paging loop
\* getAllActiveUsers of docs/examples.md: caller 2 runs the loop, its
\* findPaginated calls run in frame 1; nobody writes to the table and the
\* client does not fail.  The loop's frame keeps `page` and `pageSize` in its
\* args and `allUsers` in its results.
\* const allUsers = []; let page = 1
getAllActiveUsers(pageSize, filter) ==
    /\ frame[2].method = "idle"
    /\ frame[1].method = "idle"
    /\ Fresh
    /\ frame' = [frame EXCEPT ![2] =
          [Idle EXCEPT !.method = "getAllActiveUsers", !.stage = "loop",
                       !.args = [NoArgs EXCEPT !.page = 1, !.pageSize = pageSize,
                                               !.filter = filter],
                       !.start = mockData, !.pre = mockData]]
    /\ UNCHANGED <<mockData, now, last, this>>

\* the findPaginated call of the page the loop stands at has completed
PageFetched ==
    /\ last.method = "findPaginated"
    /\ last.args.page = frame[2].args.page

\* await userRepo.findPaginated({ page, pageSize, filter }): the call begins
getAllActiveUsersCall ==
    /\ frame[2].method = "getAllActiveUsers"
    /\ frame[2].stage = "loop"
    /\ ~PageFetched
    /\ findPaginatedCall(1, frame[2].args.page, frame[2].args.pageSize,
                         frame[2].args.filter, NoOrder, "none")

\* the call has returned: allUsers.push(...result.items), then break when
\* page >= result.pagination.totalPages, else page++
getAllActiveUsersNext ==
    /\ frame[2].method = "getAllActiveUsers"
    /\ frame[2].stage = "loop"
    /\ frame[1].method = "idle"
    /\ PageFetched
    /\ LET f == frame[2]
           allUsers == f.results \o last.out.data.rows
       IN frame' = [frame EXCEPT ![2] =
             IF f.args.page >= last.out.pagination.totalPages
             THEN [f EXCEPT !.results = allUsers, !.stage = "returned"]
             ELSE [f EXCEPT !.results = allUsers, !.args.page = f.args.page + 1]]
    /\ UNCHANGED <<mockData, now, last, this>>

InitLoop ==
    /\ mockData \in PageTables
    /\ now = 0
    /\ this = TestRepository
    /\ frame = IdleFrames
    /\ last = NoCall

NextLoop ==
    \/ \E pageSize \in 1..MaxPageSize, filter \in Filters : getAllActiveUsers(pageSize, filter)
    \/ getAllActiveUsersCall
    \/ findPaginatedCount(1, "none")
    \/ findPaginatedData(1)
    \/ getAllActiveUsersNext

\* every await of the loop is answered in the end
SpecLoop == InitLoop /\ [][NextLoop]_vars /\ WF_vars(NextLoop)

\* ------------------------------------ specification: concurrent updateMany
\* callers 1 and 2 each begin an updateMany before any call has completed;
\* caller c writes the age c, so that the writer of a value can be told
ConcRecords(c) ==
    LET recs == {MkRow(i, Undef, c) : i \in 1..2}
    IN {rs \in UNION {[1..n -> recs] : n \in 1..2} :
            \A j, k \in 1..Len(rs) : j # k => rs[j] # rs[k]}

InitConc ==
    /\ mockData \in BulkTables
    /\ now = 0
    /\ this = TestRepository
    /\ frame = IdleFrames
    /\ last = NoCall

NextConc ==
    \/ /\ Fresh
       /\ \E c \in 1..2 : \E records \in ConcRecords(c) : updateManyCall(c, records, "none")
    \/ \E c \in 1..2 : updateManyResume(c, "none")

SpecConc == InitConc /\ [][NextConc]_vars

\* ------------------------------------------------------- specification
\* One findPaginated, suspended between its count query and its data query,
\* and one write by another caller (create, delete, update or upsert) on a
\* client that does not fail: the write can land before the count query, in
\* between the two queries, or not at all.
InitSnap ==
    /\ mockData \in BulkTables
    /\ now = 0
    /\ this = TestRepository
    /\ frame = IdleFrames
    /\ last = NoCall

NextSnap ==
    \/ /\ Fresh
       /\ \E page \in 1..2, pageSize \in 1..MaxPageSize, filter \in SomeFilters,
             orderBy \in SomeOrderBys :
             findPaginatedCall(1, page, pageSize, filter, orderBy, "none")
    \/ findPaginatedCount(1, "none")
    \/ findPaginatedData(1)
    \/ /\ Fresh
       /\ \E data \in CreateData : create(data, "none")
    \/ /\ Fresh
       /\ \E id \in 1..MaxId : delete(id, "none")
    \/ /\ Fresh
       /\ \E id \in 1..MaxId, data \in UpdateData : update(id, data, "none")
    \/ /\ Fresh
       /\ \E data \in UpsertData, conflictColumns \in ConflictLists :
             upsert(data, conflictColumns, "none")

SpecSnap == InitSnap /\ [][NextSnap]_vars

\* ------------------------------------------------------- specification
\* The same query read page by page and then in one piece, on a table that
\* nobody writes to and a client that does not fail (tests/upsert.test.ts
\* 294-323 read page 1 and page 2 of one query): findPaginated for page 1, 2,
\* ... up to MaxBeyond pages past totalPages, each page kept apart, then find
\* with the same filter and orderBy.
readPages(pageSize, filter, orderBy) ==
    /\ frame[2].method = "idle"
    /\ frame[1].method = "idle"
    /\ Fresh
    /\ frame' = [frame EXCEPT ![2] =
          [Idle EXCEPT !.method = "readPages", !.stage = "pages",
                       !.args = [NoArgs EXCEPT !.page = 1, !.pageSize = pageSize,
                                               !.filter = filter, !.orderBy = orderBy],
                       !.start = mockData, !.pre = mockData]]
    /\ UNCHANGED <<mockData, now, last, this>>

\* await repository.findPaginated({ page, pageSize, filter, orderBy }) begins
readPagesCall ==
    /\ frame[2].method = "readPages"
    /\ frame[2].stage = "pages"
    /\ ~PageFetched
    /\ findPaginatedCall(1, frame[2].args.page, frame[2].args.pageSize,
                         frame[2].args.filter, frame[2].args.orderBy, "none")

\* the page has come back: keep result.items, then go to the next page or,
\* MaxBeyond pages past result.pagination.totalPages, to the find
readPagesNext ==
    /\ frame[2].method = "readPages"
    /\ frame[2].stage = "pages"
    /\ frame[1].method = "idle"
    /\ PageFetched
    /\ LET f == frame[2]
       IN frame' = [frame EXCEPT ![2] =
             IF last.out.outcome = "throw"
             THEN [f EXCEPT !.stage = "threw"]
             ELSE LET g == [f EXCEPT !.results = Append(f.results, last.out.data.rows),
                                     !.totalPages = last.out.pagination.totalPages]
                  IN IF f.args.page >= last.out.pagination.totalPages + MaxBeyond
                     THEN [g EXCEPT !.stage = "find"]
                     ELSE [g EXCEPT !.args.page = f.args.page + 1]]
    /\ UNCHANGED <<mockData, now, last, this>>

\* await repository.find({ filter, orderBy })
readPagesFind ==
    /\ frame[2].method = "readPages"
    /\ frame[2].stage = "find"
    /\ last.method # "find"
    /\ find(frame[2].args.filter, frame[2].args.orderBy, "none")

\* tables of up to MaxPageRows rows in which every row has an age, with and
\* without rows of the same age
BookTables ==
    UNION {{[k \in 1..n |-> MkRow(k, 1 + (k % 2), f[k])] : f \in [1..n -> 1..n]} :
              n \in 0..MaxPageRows}

InitBook ==
    /\ mockData \in BookTables
    /\ now = 0
    /\ this = TestRepository
    /\ frame = IdleFrames
    /\ last = NoCall

NextBook ==
    \/ \E pageSize \in 1..MaxPageSize, filter \in Filters, orderBy \in OrderBys :
          readPages(pageSize, filter, orderBy)
    \/ readPagesCall
    \/ findPaginatedCount(1, "none")
    \/ findPaginatedData(1)
    \/ readPagesNext
    \/ readPagesFind

SpecBook == InitBook /\ [][NextBook]_vars

\* ------------------------------------------------------- specification
\* The same upsert made twice in a row by one caller, with the clock free to
\* move in between, on a client that does not fail.
TwiceLists == ConflictLists \cup {<<>>}

\* await repo.upsert(data, conflictColumns) once more, with the arguments of
\* the upsert that has just completed
upsertAgain ==
    /\ last.method = "upsert"
    /\ last.prev.method = "none"
    /\ upsert(last.args.data, last.args.conflictColumns, "none")

InitTwice ==
    /\ mockData \in Tables
    /\ now = 0
    /\ this = TestRepository
    /\ frame = IdleFrames
    /\ last = NoCall

NextTwice ==
    \/ /\ Fresh
       /\ \E data \in UpsertData, conflictColumns \in TwiceLists :
             upsert(data, conflictColumns, "none")
    \/ upsertAgain
    \/ Tick

SpecTwice == InitTwice /\ [][NextTwice]_vars

\* ------------------------------------------------------------ properties
\* the rows of a table that satisfy a filter, in table order
Matching(tableData, filter) ==
    LET sat(item) == \A k \in 1..Len(filter) : Holds(filter[k], item)
    IN SelectSeq(tableData, sat)

\* the orderings of rows that the client can produce for an orderBy option
Orderings(rows, orderBy) ==
    IF orderBy.kind = "none" THEN {rows}
    ELSE SortOutcomes(rows, [k \in 1..Len(orderBy.list) |->
            [column |-> orderBy.list[k].column,
             ascending |-> orderBy.list[k].ascending # "false"]])

PageReturned == last.method = "findPaginated" /\ last.out.outcome = "return"

\* C1: findPaginated with page >= 1 and pageSize >= 1 returns as items exactly
\* the rows at the zero-based positions (page-1)*pageSize .. (page-1)*pageSize +
\* pageSize - 1 of the filtered and ordered result set, hence at most pageSize
\* items.
C1_PageItems ==
    PageReturned =>
        LET a == last.args
            first == (a.page - 1) * a.pageSize
            items == last.out.data.rows
        IN \E ordered \in Orderings(Matching(last.pre, a.filter), a.orderBy) :
              /\ Len(items) <= a.pageSize
              /\ \A i \in 0..(a.pageSize - 1) :
                    IF first + i < Len(ordered)
                    THEN i < Len(items) /\ items[i + 1] = ordered[first + i + 1]
                    ELSE Len(items) <= i

\* a second page that is cut short by the end of a filtered, ordered result
C1_Witness ==
    /\ PageReturned
    /\ last.args.page = 2 /\ last.args.pageSize = 2
    /\ last.args.filter # NoFilter /\ last.args.orderBy.kind = "many"
    /\ Len(last.out.data.rows) = 1
    /\ Len(last.pre) = 3
    /\ last.out.data.rows[1] # last.pre[3]

\* C2: pagination.totalPages is the least integer n with n * pageSize >=
\* totalCount (0 when totalCount is 0), and pagination.page and
\* pagination.pageSize are the values passed in.
C2_TotalPages ==
    PageReturned =>
        LET pg == last.out.pagination
        IN /\ pg.page = last.args.page
           /\ pg.pageSize = last.args.pageSize
           /\ pg.totalPages >= 0
           /\ pg.totalPages * pg.pageSize >= pg.totalCount
           /\ pg.totalPages > 0 => (pg.totalPages - 1) * pg.pageSize < pg.totalCount

\* three rows in pages of two: two pages
C2_Witness ==
    /\ PageReturned
    /\ last.out.pagination.totalCount = 3
    /\ last.out.pagination.pageSize = 2
    /\ last.out.pagination.totalPages = 2

\* C3: pagination.totalCount is the number of rows that satisfy the filter,
\* whatever page, pageSize and orderBy are and however many items the page
\* holds, and count(filter) returns that same number.
C3_TotalCount ==
    /\ PageReturned =>
          last.out.pagination.totalCount = Len(Matching(last.start, last.args.filter))
    /\ (last.method = "count" /\ last.out.outcome = "return") =>
          last.out.num = Len(Matching(last.pre, last.args.filter))

\* a filter that drops a row, and a page that holds fewer items than match
C3_Witness ==
    /\ PageReturned
    /\ last.args.filter # NoFilter
    /\ last.out.pagination.totalCount = 2
    /\ Len(last.start) = 3
    /\ Len(last.out.data.rows) = 1

BulkDone == last.method = "updateMany"

\* C4: updateMany issues its single-row updates one at a time in the order of
\* records: the update of record i+1 is not issued before the response for
\* record i is received, so at most one update of the call is in flight; on
\* success the result has one row per input record, in input order, and an
\* empty input gives an empty result without any client request.
C4_Sequential ==
    /\ \A c \in Callers :
          frame[c].method = "updateMany" =>
             /\ Len(frame[c].inflight) <= 1
             /\ frame[c].sent = [j \in 1..Len(frame[c].sent) |-> j]
             /\ Len(frame[c].sent) = Len(frame[c].results) + Len(frame[c].inflight)
             /\ Len(frame[c].sent) <= Len(frame[c].args.records)
    /\ (BulkDone /\ last.out.outcome = "return") =>
          LET records == last.args.records
              rows == last.out.data.rows
          IN /\ Len(rows) = Len(records)
             /\ \A i \in 1..Len(records) : rows[i].id = records[i].id
             /\ last.sent = [j \in 1..Len(records) |-> j]
             /\ last.requests = Len(records)

\* three updates answered one after the other, the rows coming back in the
\* order of the records and not in the order of the table
C4_Witness ==
    /\ BulkDone /\ last.out.outcome = "return"
    /\ Len(last.args.records) = 3
    /\ last.args.records[1].id = 2
    /\ last.args.records[2].id = 1
    /\ last.out.data.rows[1].id = 2
    /\ last.out.data.rows[2].id = 1

\* the table after the updates of the first n records, each applied to the row
\* with the record's id
RECURSIVE Applied(_, _, _)
Applied(tableData, records, n) ==
    IF n = 0 THEN tableData
    ELSE LET t == Applied(tableData, records, n - 1)
             r == records[n]
         IN [k \in 1..Len(t) |->
               IF t[k].id # r.id THEN t[k]
               ELSE [c \in Columns |->
                       IF c # "id" /\ r[c] # Undef THEN r[c] ELSE t[k][c]]]

\* C5: updateMany is not atomic: if the update of record k fails, updateMany
\* throws that error, the updates of the records before k remain applied, no
\* update is issued for a record after k, and no partial result is returned.
C5_NotAtomic ==
    (BulkDone /\ last.out.outcome = "throw") =>
        LET k == Len(last.sent)
        IN /\ k >= 1
           /\ last.sent = [j \in 1..k |-> j]
           /\ last.requests = k
           /\ last.resp.error # "null"
           /\ last.out.error = last.resp.error
           /\ last.out.data = NullData
           /\ last.post = Applied(last.start, last.args.records, k - 1)

\* the second of three updates fails: the first stays applied, the third,
\* which would have changed a row, is never issued
C5_Witness ==
    /\ BulkDone /\ last.out.outcome = "throw"
    /\ Len(last.args.records) = 3
    /\ Len(last.sent) = 2
    /\ last.post # last.start
    /\ last.post # Applied(last.post, last.args.records, 3)

\* C6: whenever the client answers a request of a call with an error, the
\* call throws exactly that error and gives back no result; a call that
\* returns normally received no error.
C6_ErrorsRethrown ==
    last.method # "none" =>
        /\ last.resp.error # "null" => last.out = Throw(last.resp.error)
        /\ last.out.outcome = "return" => last.resp.error = "null"

\* findPaginated counted the rows, then its data request failed, and it threw
C6_Witness ==
    /\ last.method = "findPaginated"
    /\ last.requests = 2
    /\ last.resp.error = ClientError
    /\ last.out = Throw(ClientError)

\* positions of the rows of tableData whose id is id
WithId(tableData, id) == {k \in 1..Len(tableData) : tableData[k].id = id}

AgreesOnAll(existing, item, conflictColumns) ==
    \A k \in 1..Len(conflictColumns) :
        /\ Field(existing, conflictColumns[k]) # Undef
        /\ Field(existing, conflictColumns[k]) = Field(item, conflictColumns[k])

\* positions of the rows of tableData that agree with item on every listed column
Conflicting(tableData, item, conflictColumns) ==
    {k \in 1..Len(tableData) : AgreesOnAll(tableData[k], item, conflictColumns)}

\* an upsert that the client answered without failing
UpsertDone == last.method = "upsert" /\ last.resp.error = "null"

\* C8: an upsert whose data matches one existing row on the conflict columns
\* updates that row in place: the returned row has the existing row's id, every
\* field data gives, the existing value of every field data omits; it stands
\* where the existing row stood and the table has as many rows as before.
C8_UpsertUpdates ==
    UpsertDone =>
        LET hits == Conflicting(last.pre, last.args.data, last.args.conflictColumns)
        IN Cardinality(hits) = 1 =>
              LET k == CHOOSE h \in hits : TRUE
                  row == last.out.data.rows[1]
              IN /\ last.out.outcome = "return"
                 /\ row.id = last.pre[k].id
                 /\ \A col \in Columns :
                       row[col] = IF last.args.data[col] # Undef
                                  THEN last.args.data[col] ELSE last.pre[k][col]
                 /\ Len(last.post) = Len(last.pre)
                 /\ last.post = [last.pre EXCEPT ![k] = row]

\* C9: an upsert whose data matches no existing row on the conflict columns
\* inserts: the table grows by one row, the rows it had are unchanged, the
\* returned row has the fields of data and a defined id, data's id if it has one.
C9_UpsertInserts ==
    UpsertDone =>
        (Conflicting(last.pre, last.args.data, last.args.conflictColumns) = {} =>
            LET row == last.out.data.rows[1]
            IN /\ last.out.outcome = "return"
               /\ Len(last.post) = Len(last.pre) + 1
               /\ SubSeq(last.post, 1, Len(last.pre)) = last.pre
               /\ \A col \in Columns : last.args.data[col] # Undef => row[col] = last.args.data[col]
               /\ row.id # Undef)

\* the column names with a comma between each two
RECURSIVE CommaSeparated(_)
CommaSeparated(cols) ==
    IF Len(cols) <= 1 THEN cols
    ELSE <<Head(cols), ",">> \o CommaSeparated(Tail(cols))

\* C10: upsert hands the client the conflict columns joined by commas, and a
\* row that does not agree with data on every listed column is not overwritten.
C10_AllColumnsConflict ==
    UpsertDone =>
        /\ last.onConflict = CommaSeparated(last.args.conflictColumns)
        /\ \A k \in 1..Len(last.pre) :
              ~AgreesOnAll(last.pre[k], last.args.data, last.args.conflictColumns)
                  => last.post[k] = last.pre[k]

\* how many times row r stands in the list rows
Times(rows, r) == Cardinality({k \in 1..Len(rows) : rows[k] = r})

\* a find that the client answered without failing
FindDone == last.method = "find" /\ last.resp.error = "null"

\* C11: find returns exactly the rows of the table that satisfy the filter,
\* each as often as the table holds it, and every row when there is no filter.
C11_FindExactlyMatching ==
    FindDone =>
        LET rows == last.out.data.rows
            want == Matching(last.pre, last.args.filter)
        IN /\ last.out.outcome = "return"
           /\ last.out.data = ManyRows(rows)
           /\ Len(rows) = Len(want)
           /\ \A k \in 1..Len(last.pre) : Times(rows, last.pre[k]) = Times(want, last.pre[k])
           /\ last.args.filter = NoFilter => Len(rows) = Len(last.pre)

\* a filtered, ordered find that kept some rows of the table and dropped others
C11_Witness ==
    /\ FindDone
    /\ last.args.filter # NoFilter
    /\ last.args.orderBy # NoOrder
    /\ Len(last.pre) = 3
    /\ Len(last.out.data.rows) = 2

\* rows a and b, a standing before b, respect the orderBy entries: the first
\* entry on which they differ has them in its direction (ascending unless the
\* entry says descending); a row without a value in a column is not compared
\* on that column or a later one
RECURSIVE InOrder(_, _, _)
InOrder(a, b, entries) ==
    IF entries = <<>> THEN TRUE
    ELSE LET col == Head(entries).column
         IN IF a[col] = Undef \/ b[col] = Undef THEN TRUE
            ELSE IF a[col] = b[col] THEN InOrder(a, b, Tail(entries))
            ELSE IF Head(entries).ascending = "false" THEN a[col] > b[col]
            ELSE a[col] < b[col]

\* a find or findPaginated that returned rows for an orderBy option
OrderedDone ==
    /\ last.method \in {"find", "findPaginated"}
    /\ last.out.outcome = "return"
    /\ last.args.orderBy # NoOrder

\* C12: the rows find and findPaginated return stand in the order of the
\* orderBy entries: the first entry is the primary key, later entries break
\* ties, an entry without a flag sorts ascending, and one OrderBy object
\* orders like the list that holds just it.
C12_OrderByApplied ==
    OrderedDone =>
        LET rows == last.out.data.rows
        IN \A i, j \in 1..Len(rows) :
              i < j => InOrder(rows[i], rows[j], last.args.orderBy.list)

\* an update that the client answered without failing
UpdateDone == last.method = "update" /\ last.resp.error # ClientError

\* C13: update(id, data) on a table that has the row with that id returns that
\* row with the fields of data set and its id and every other field as they
\* were, puts it where the row stood and leaves every other row as it was.
C13_UpdateOnlyNamedFields ==
    UpdateDone =>
        LET hits == WithId(last.pre, last.args.id)
        IN Cardinality(hits) = 1 =>
              LET k == CHOOSE h \in hits : TRUE
                  row == last.out.data.rows[1]
              IN /\ last.out.outcome = "return"
                 /\ last.out.data = OneRow(row)
                 /\ row.id = last.pre[k].id
                 /\ \A col \in Columns \ {"id"} :
                       row[col] = IF last.args.data[col] # Undef
                                  THEN last.args.data[col] ELSE last.pre[k][col]
                 /\ last.post = [last.pre EXCEPT ![k] = row]

\* the second of two rows got a new email, kept its age, and the first row stayed
C13_Witness ==
    /\ UpdateDone
    /\ Len(last.pre) = 2
    /\ last.args.id = 2
    /\ last.args.data.email = MaxVal /\ last.args.data.age = Undef
    /\ last.out.data.rows[1].age = last.pre[2].age
    /\ last.post[2] # last.pre[2]
    /\ last.post[1] = last.pre[1]

\* C14: update(id, data) for an id that no row has throws an error and leaves
\* the table as it was.
C14_UpdateMissingThrows ==
    (last.method = "update" /\ WithId(last.pre, last.args.id) = {}) =>
        /\ last.out.outcome = "throw"
        /\ last.out.error # "null"
        /\ last.post = last.pre

\* an update of a missing id on a table with rows threw the client's own error
C14_Witness ==
    /\ last.method = "update"
    /\ last.pre # <<>>
    /\ WithId(last.pre, last.args.id) = {}
    /\ last.out = Throw("No rows updated")
    /\ last.post = last.pre

\* the rows of tableData whose id is not in ids, in table order
Without(tableData, ids) ==
    LET stays(item) == item.id \notin ids
    IN SelectSeq(tableData, stays)

\* the call before the last one was a delete of the id the last call names
AfterDeleteOfSameId ==
    /\ last.prev.method = "delete"
    /\ last.prev.outcome = "return"
    /\ last.prev.id = last.args.id

Elements(list) == {list[k] : k \in 1..Len(list)}

\* C16: deleteMany(ids), when the client does not fail, issues one request,
\* completes without error, removes exactly the rows whose id is in ids and
\* leaves every other row as it was; an empty list and ids that no row has
\* leave the table unchanged.
C16_DeleteManyExactly ==
    (last.method = "deleteMany" /\ last.resp.error # ClientError) =>
        /\ last.out = ReturnData(NullData)
        /\ last.requests = 1
        /\ last.post = Without(last.pre, Elements(last.args.ids))
        /\ (\A k \in 1..Len(last.pre) : last.pre[k].id \notin Elements(last.args.ids))
               => last.post = last.pre

\* one of two rows was deleted, the other is still there
C16_Witness ==
    /\ last.method = "deleteMany"
    /\ last.args.ids = <<1>>
    /\ Len(last.pre) = 2
    /\ last.post = <<last.pre[2]>>
    /\ last.out = ReturnData(NullData)

\* the call before the last one was a create that returned the row whose id
\* the last call names
AfterCreateOfSameId ==
    /\ last.prev.method = "create"
    /\ last.prev.outcome = "return"
    /\ last.prev.data.rows # <<>>
    /\ last.prev.data.rows[1].id = last.args.id

\* C17: create(data) returns a row that has every field of data and a defined
\* id, the table afterwards is the table before with that row added, and a
\* get of the returned id that follows returns that same row.
C17_CreateAddsOne ==
    /\ last.method = "create" =>
          /\ last.out.outcome = "return"
          /\ last.out.data.rows # <<>>
          /\ LET row == last.out.data.rows[1]
             IN /\ \A col \in Columns :
                      last.args.data[col] # Undef => row[col] = last.args.data[col]
                /\ row.id # Undef
                /\ last.post = Append(last.pre, row)
    /\ (last.method = "get" /\ AfterCreateOfSameId) => last.out = ReturnData(last.prev.data)

\* C18: createMany(records), when the client does not fail, issues one request
\* and returns one row per record in the order of the records: row i has the
\* fields of record i and a defined id, and the table afterwards is the table
\* before followed by those rows.
C18_CreateManyInOrder ==
    (last.method = "createMany" /\ last.resp.error # ClientError) =>
        LET rows == last.out.data.rows
            records == last.args.records
        IN /\ last.out.outcome = "return"
           /\ last.requests = 1
           /\ Len(rows) = Len(records)
           /\ \A i \in 1..Len(records) :
                 /\ rows[i].id # Undef
                 /\ \A col \in Columns :
                       records[i][col] # Undef => rows[i][col] = records[i][col]
           /\ Len(last.post) = Len(last.pre) + Len(records)
           /\ last.post = last.pre \o rows

\* two different records were created in one call
C18_Witness ==
    /\ last.method = "createMany"
    /\ last.out.outcome = "return"
    /\ Len(last.args.records) = 2
    /\ last.args.records[1] # last.args.records[2]
    /\ Len(last.post) = Len(last.pre) + 2
    /\ last.out.data.rows[1].id # last.out.data.rows[2].id

\* the call named method was answered by the client with a count and no error
Counted(method) ==
    /\ last.method = method
    /\ last.resp.error = "null"
    /\ last.resp.count # NullCount

\* what count(filter) gives on tableData when the client answers normally
CountOn(tableData, filter) ==
    LET q0 == select(from, TRUE, TRUE)
        q1 == IF filter # NoFilter THEN applyFilter(q0, filter) ELSE q0
    IN {throwOrCount(r) : r \in executeQuery(q1, tableData)}

\* what find({filter}) gives on tableData when the client answers normally
FindOn(tableData, filter) ==
    LET q0 == select(from, FALSE, FALSE)
        q1 == IF filter # NoFilter THEN applyFilter(q0, filter) ELSE q0
    IN {throwOrData(r) : r \in executeQuery(q1, tableData)}

\* C19: exists(filter), answered by the client with a count, returns true
\* exactly when some row of the table satisfies the filter, and that is
\* exactly when count(filter) on the same table is greater than 0.
C19_ExistsIffMatching ==
    Counted("exists") =>
        /\ last.out = ReturnFlag(Len(Matching(last.pre, last.args.filter)) > 0)
        /\ \A c \in CountOn(last.pre, last.args.filter) :
              c.outcome = "return" /\ (last.out.flag <=> c.num > 0)

\* exists was true on a table where one row satisfies the filter and one does not
C19_Witness ==
    /\ Counted("exists")
    /\ last.out = ReturnFlag(TRUE)
    /\ Len(last.pre) = 2
    /\ Len(Matching(last.pre, last.args.filter)) = 1

\* C20: count, answered by the client with a count, returns the number of
\* rows of the table when there is no filter and the number of rows that
\* satisfy the filter otherwise, which is the length of find({filter}) on
\* the same table.
C20_CountMatching ==
    Counted("count") =>
        /\ last.out = ReturnNum(Len(Matching(last.pre, last.args.filter)))
        /\ last.args.filter = NoFilter => last.out.num = Len(last.pre)
        /\ \A f \in FindOn(last.pre, last.args.filter) :
              f.outcome = "return" /\ Len(f.data.rows) = last.out.num

\* a filtered count of two on a table of three rows
C20_Witness ==
    /\ Counted("count")
    /\ last.args.filter # NoFilter
    /\ Len(last.pre) = 3
    /\ last.out = ReturnNum(2)

\* the methods that are one request
SingleRequestMethods ==
    {"get", "find", "create", "update", "delete", "upsert", "exists", "count",
     "createMany", "deleteMany"}

\* C21: no call repeats a request.  A completed single-request call issued
\* one request; a completed findPaginated issued one request if its count
\* query failed and two otherwise; a completed updateMany issued one request
\* per record up to and including the first that failed.  A suspended call
\* has one request outstanding and every earlier request of it succeeded.
C21_NoRetries ==
    /\ last.method \in SingleRequestMethods => last.requests = 1
    /\ last.method = "findPaginated" =>
          /\ last.requests \in {1, 2}
          /\ last.requests = 1 => last.out = Throw(last.resp.error)
    /\ last.method = "updateMany" =>
          /\ last.requests <= Len(last.args.records)
          /\ last.out.outcome = "return" =>
                /\ last.requests = Len(last.args.records)
                /\ Len(last.out.data.rows) = last.requests
          /\ last.out.outcome = "throw" => last.sent = [j \in 1..last.requests |-> j]
    /\ \A c \in Callers :
          /\ frame[c].method = "findPaginated" =>
                /\ Len(frame[c].inflight) = 1
                /\ frame[c].issued = IF frame[c].stage = "count" THEN 1 ELSE 2
          /\ frame[c].method = "updateMany" =>
                /\ Len(frame[c].inflight) = 1
                /\ frame[c].issued = Len(frame[c].results) + 1
                /\ frame[c].issued <= Len(frame[c].args.records)

\* an updateMany of two records failed at the first and sent nothing more
C21_Witness ==
    /\ last.method = "updateMany"
    /\ Len(last.args.records) = 2
    /\ last.out.outcome = "throw"
    /\ last.requests = 1

\* the paging loop has returned
LoopReturned == frame[2].method = "getAllActiveUsers" /\ frame[2].stage = "returned"

\* the paging loop is running
LoopRunning == frame[2].method = "getAllActiveUsers" /\ frame[2].stage = "loop"

\* C22: the documented paging loop, on a table that is not modified and with
\* pageSize >= 1, terminates, and what it has collected when it returns is
\* every row matching the filter exactly once (nothing when no row matches).
C22_PagingLoopCollectsAll ==
    /\ LoopRunning ~> LoopReturned
    /\ [](LoopReturned =>
            LET allUsers == frame[2].results
                want == Matching(mockData, frame[2].args.filter)
            IN /\ Len(allUsers) = Len(want)
               /\ \A k \in 1..Len(mockData) :
                     Times(allUsers, mockData[k]) = Times(want, mockData[k]))

\* the loop returned three matching rows that it fetched on three pages
C22_Witness ==
    /\ LoopReturned
    /\ frame[2].args.page = 3
    /\ Len(frame[2].results) = 3
    /\ frame[2].args.filter # NoFilter

\* ---- C23
\* caller c's updateMany issues a request in this step
Issuing(c) == frame'[c].method = "updateMany" /\ frame'[c].issued # frame[c].issued

\* the table after one updateMany call ran to its end and then the other
BothOrders(tableData, first, second) ==
    Applied(Applied(tableData, first, Len(first)), second, Len(second))

\* C23: while two updateMany calls run concurrently each call issues its
\* updates one at a time in its own record order (the positions it has sent
\* are 1, 2, ... with no gap), every such update is applied to the table as it
\* is at that moment and overwrites exactly the fields the record sets, so a
\* field holds the value of the last applied update that set it, and the table
\* changes in no other way; the two calls' updates may interleave freely, and
\* the final table can differ from both one-after-the-other results
C23_ConcurrentUpdateMany ==
    [][/\ \A c \in Callers : Issuing(c) =>
             LET f == frame'[c]
                 record == f.args.records[f.issued]
             IN /\ f.issued = frame[c].issued + 1
                /\ f.sent = [k \in 1..f.issued |-> k]
                /\ mockData' = Applied(mockData, <<record>>, 1)
                /\ \A d \in Callers \ {c} : frame'[d] = frame[d]
       /\ (\A c \in Callers : ~Issuing(c)) => mockData' = mockData]_vars

\* both calls updated both rows and returned, caller 2 wrote row 1 last and
\* caller 1 wrote row 2 last: the table is neither sequential result
C23_Witness ==
    LET r(c) == <<MkRow(1, Undef, c), MkRow(2, Undef, c)>>
        start == <<MkRow(1, 1, 1), MkRow(2, 2, 2)>>
    IN /\ frame = IdleFrames
       /\ last.method = "updateMany" /\ last.prev.method = "updateMany"
       /\ last.out = ReturnData(ManyRows(<<MkRow(1, 1, 2), MkRow(2, 2, 2)>>))
       /\ last.prev.data = ManyRows(<<MkRow(1, 1, 1), MkRow(2, 2, 1)>>)
       /\ mockData = <<MkRow(1, 1, 2), MkRow(2, 2, 1)>>
       /\ mockData # BothOrders(start, r(1), r(2))
       /\ mockData # BothOrders(start, r(2), r(1))

\* ---- C24
\* C24: findPaginated issues the count query first (its first request, answered
\* with a count and no rows); the data query is issued only in the step that
\* receives an error-free answer to the count query, as the call's second
\* request; when the count query answers with an error the call throws that
\* error having issued one request, so the data query is never issued
C24_CountBeforeData ==
    [][\A c \in Callers :
         LET f == frame[c]
             g == frame'[c]
         IN /\ (f.method = "idle" /\ g.method = "findPaginated") =>
                  /\ g.stage = "count" /\ g.issued = 1
                  /\ g.inflight[1].data = NullData
            /\ (g.method = "findPaginated" /\ g.stage = "data" /\ f.stage # "data") =>
                  /\ f.method = "findPaginated" /\ f.stage = "count"
                  /\ Head(f.inflight).error = "null"
                  /\ g.issued = 2
            /\ (f.method = "findPaginated" /\ f.stage = "count" /\ g # f
                  /\ Head(f.inflight).error # "null") =>
                  /\ g = Idle
                  /\ last'.method = "findPaginated" /\ last'.requests = 1
                  /\ last'.out = Throw(Head(f.inflight).error)]_vars

\* a findPaginated over a table with rows threw the count query's error after
\* one request
C24_Witness ==
    /\ last.method = "findPaginated"
    /\ last.requests = 1
    /\ last.resp.error = ClientError /\ last.out = Throw(ClientError)
    /\ Len(last.start) = 2 /\ last.post = last.start
    /\ frame = IdleFrames

\* ---- C25
WriteMethods == {"create", "delete", "update", "upsert"}

\* a write by another caller completed while the findPaginated that has now
\* returned was suspended after its count query
WroteBetween == PageReturned /\ last.prev.method \in WriteMethods /\ last.start # last.pre

\* min(pageSize, max(0, totalCount - (page-1)*pageSize))
ItemsPromised(pg) ==
    LET left == pg.totalCount - (pg.page - 1) * pg.pageSize
    IN Min(pg.pageSize, IF left > 0 THEN left ELSE 0)

\* C25: findPaginated reads no snapshot: totalCount and totalPages are computed
\* from the table as it was at the count query, items are the page of the
\* table as it is at the data query, and a write of another caller may have
\* changed the table in between; then the number of items can differ from
\* min(pageSize, max(0, totalCount - (page-1)*pageSize))
C25_NoSnapshot ==
    PageReturned =>
        LET a == last.args
            pg == last.out.pagination
            first == (a.page - 1) * a.pageSize
            items == last.out.data.rows
        IN /\ pg.totalCount = Len(Matching(last.start, a.filter))
           /\ pg.totalPages = ceil(pg.totalCount, a.pageSize)
           /\ \E ordered \in Orderings(Matching(last.pre, a.filter), a.orderBy) :
                 /\ Len(items) = Min(a.pageSize,
                                     IF Len(ordered) > first THEN Len(ordered) - first ELSE 0)
                 /\ \A i \in 1..Len(items) : items[i] = ordered[first + i]
           /\ last.start = last.pre => Len(items) = ItemsPromised(pg)

\* a delete landed between the count query and the data query: the page
\* holds fewer items than the pagination data promises
C25_Witness ==
    /\ WroteBetween
    /\ last.prev.method = "delete" /\ last.prev.outcome = "return"
    /\ last.out.pagination.totalCount = 2
    /\ Len(last.out.data.rows) = 1
    /\ Len(last.out.data.rows) # ItemsPromised(last.out.pagination)

\* ---- C26
\* the orderBy orders the rows totally: the comparator tells any two of them
\* apart and is a consistent comparator on them
OrdersTotally(rows, orderBy) ==
    /\ orderBy.kind # "none"
    /\ LET ob == [k \in 1..Len(orderBy.list) |->
                    [column |-> orderBy.list[k].column,
                     ascending |-> orderBy.list[k].ascending # "false"]]
       IN /\ Consistent(rows, ob)
          /\ \A i, j \in 1..Len(rows) : i # j => compare(rows[i], rows[j], ob) # 0

RECURSIVE Concat(_, _)
Concat(pages, n) == IF n = 0 THEN <<>> ELSE Concat(pages, n - 1) \o pages[n]

\* every page and the find have been read
BookRead == frame[2].method = "readPages" /\ frame[2].stage = "find" /\ last.method = "find"

\* C26: on an unchanging table, with one filter, one pageSize >= 1 and an
\* orderBy that orders the matching rows totally, the items of the pages
\* 1..totalPages put together in page order are the result of find with the
\* same filter and orderBy; every matching row is on exactly one page; every
\* page before the last holds pageSize items; every page past totalPages
\* comes back empty and without error
C26_PagesMakeFind ==
    /\ frame[2].stage # "threw"
    /\ (BookRead /\ OrdersTotally(Matching(mockData, frame[2].args.filter),
                                  frame[2].args.orderBy)) =>
          LET f == frame[2]
              pages == f.results
              whole == Concat(pages, f.totalPages)
              want == Matching(mockData, f.args.filter)
          IN /\ last.out.outcome = "return"
             /\ Len(pages) = f.totalPages + MaxBeyond
             /\ whole = last.out.data.rows
             /\ \A k \in 1..Len(mockData) : Times(whole, mockData[k]) = Times(want, mockData[k])
             /\ \A p \in 1..(f.totalPages - 1) : Len(pages[p]) = f.args.pageSize
             /\ \A p \in (f.totalPages + 1)..Len(pages) : pages[p] = <<>>

\* three rows with different ages read in pages of two, oldest first, which
\* is not the order of the table
C26_Witness ==
    /\ BookRead
    /\ OrdersTotally(Matching(mockData, frame[2].args.filter), frame[2].args.orderBy)
    /\ frame[2].args.pageSize = 2 /\ frame[2].totalPages = 2
    /\ Len(frame[2].results) = 2 + MaxBeyond
    /\ Len(last.out.data.rows) = 3
    /\ last.out.data.rows # mockData

\* ---- C27
\* the step completes a get, find, exists or count, or is a step of a
\* findPaginated call
ReadStep ==
    \/ last' # last /\ last'.method \in {"get", "find", "exists", "count"}
    \/ \E c \in Callers :
          /\ frame'[c] # frame[c]
          /\ frame[c].method = "findPaginated" \/ frame'[c].method = "findPaginated"

\* C27: get, find, findPaginated, exists and count never modify the table:
\* no step of any of them changes the table contents, whether the call
\* returns or throws, so a completed get, find, exists or count leaves the
\* table it found; and the repository's tableName and client are the ones the
\* constructor was given, whatever operations have run
C27_ReadsLeaveTable ==
    /\ [][ReadStep => mockData' = mockData]_vars
    /\ [](last.method \in {"get", "find", "exists", "count"} => last.post = last.start)
    /\ [](this = TestRepository)

\* a findPaginated over two rows whose data query failed: it threw after two
\* requests and the rows are still there
C27_Witness ==
    /\ last.method = "findPaginated"
    /\ last.requests = 2 /\ last.out = Throw(ClientError)
    /\ Len(last.start) = 2
    /\ last.post = last.start /\ mockData = last.start

\* ---- C28
\* data gives a value for every conflict column
GivesAll(data, conflictColumns) ==
    \A k \in 1..Len(conflictColumns) : Field(data, conflictColumns[k]) # Undef

\* the second of two upserts with the same arguments has completed
UpsertedTwice == last.method = "upsert" /\ last.prev.method = "upsert"

\* C28 as stated: upsert is idempotent: when data gives a value for every
\* conflict column, the second of two upserts with the same data and
\* conflictColumns made in a row leaves the table as the first one left it (it
\* updates the row the first call wrote and inserts none) and returns the row
\* the first call returned
C28_UpsertIdempotent ==
    (UpsertedTwice /\ GivesAll(last.args.data, last.args.conflictColumns)) =>
        /\ last.out.outcome = "return"
        /\ last.post = last.pre
        /\ last.out.data = last.prev.data

\* C28, amended: the same for a conflictColumns list that names at least one
\* column: when data gives a value for every one of them, the second upsert
\* leaves the table as the first one left it and returns the same row
C28_IdempotentOnColumns ==
    (UpsertedTwice /\ last.args.conflictColumns # <<>>
        /\ GivesAll(last.args.data, last.args.conflictColumns)) =>
        /\ last.out.outcome = "return"
        /\ last.post = last.pre
        /\ last.out.data = last.prev.data

\* an upsert by e-mail without an id that inserted a row under a generated id,
\* made again after the clock moved: still one such row, returned both times
C28_Witness ==
    /\ UpsertedTwice
    /\ last.args.conflictColumns = <<"email">>
    /\ last.args.data.id = Undef /\ last.args.data.email # Undef
    /\ last.out.data.rows[1].id = UpsertMockId(0)
    /\ last.prev.data = last.out.data
    /\ now = 1
    /\ Len(mockData) = 2 /\ mockData[2] = last.out.data.rows[1]

\* ---- C29
\* C29: from a table whose rows have pairwise distinct ids, after any
\* sequence of create, createMany, update, updateMany, upsert, delete and
\* deleteMany no two rows of the table share an id, so get(id) never matches
\* more than one row
C29_IdsDistinct ==
    /\ \A j, k \in 1..Len(mockData) : j # k => mockData[j].id # mockData[k].id
    /\ last.method = "get" => last.resp.error # "Multiple rows returned"

\* ---- C30
\* the client answered with neither an error nor a count
NoCount(resp) == resp.error = "null" /\ resp.count = NullCount

\* C30: when the client answers a count query with neither an error nor a
\* count, count() returns 0 and exists() returns false; findPaginated takes 0
\* for totalCount and for totalPages, still issues its data query (its second
\* request), and returns the rows that query answers with as items, with that
\* pagination data
C30_NullCountIsZero ==
    /\ []((last.method = "count" /\ NoCount(last.resp)) => last.out = ReturnNum(0))
    /\ []((last.method = "exists" /\ NoCount(last.resp)) => last.out = ReturnFlag(FALSE))
    /\ [][\A c \in Callers :
            LET f == frame[c]
                g == frame'[c]
            IN /\ (f.method = "findPaginated" /\ f.stage = "count" /\ g # f
                     /\ NoCount(Head(f.inflight))) =>
                     /\ g.method = "findPaginated" /\ g.stage = "data"
                     /\ g.issued = 2
                     /\ g.totalCount = 0 /\ g.totalPages = 0
               /\ (f.method = "findPaginated" /\ f.stage = "data" /\ g # f
                     /\ Head(f.inflight).error = "null") =>
                     last'.out = ReturnPage(Head(f.inflight).data.rows,
                                            [page |-> f.args.page, pageSize |-> f.args.pageSize,
                                             totalCount |-> f.totalCount,
                                             totalPages |-> f.totalPages])]_vars

\* a findPaginated without filter over two rows reported no rows and no pages
\* and returned both rows
C30_Witness ==
    /\ PageReturned
    /\ last.args.filter = NoFilter /\ last.args.page = 1
    /\ last.requests = 2
    /\ last.out.pagination.totalCount = 0 /\ last.out.pagination.totalPages = 0
    /\ Len(last.out.data.rows) = 2
    /\ last.out.data.rows = last.start

====
